---- MODULE Spec2Model ----
(***************************************************************************)
(* Model of scripts/auto_login.py: the Telegram notifier (flush_updates,   *)
(* wait_code), and the AutoLogin orchestrator (run, login_github,          *)
(* wait_device, detect_and_handle_2fa, _handle_mobile_2fa,                 *)
(* _handle_code_2fa, complete_oauth_flow, keepalive, notify).              *)
(*                                                                         *)
(* A URL is a sequence of tokens; `marker in url` of the source is the     *)
(* contiguous-subsequence test Contains.  The tokens are cut so that every *)
(* marker the source tests is a whole number of tokens ("sessions" is      *)
(* "session","s" because the source tests 'github.com/session').           *)
(*                                                                         *)
(* page.url is a cached property of the synchronous driver: two reads in   *)
(* one condition see the same value.  The URL changes only while the       *)
(* script is inside a page operation or a sleep, which is where the        *)
(* actions below draw a new URL from URLS.                                 *)
(***************************************************************************)
EXTENDS Integers, Sequences, FiniteSets, TLC

\* ---------------------------------------------------------------- bounds
MaxMsgs == 2
MaxSlack == 0
CountCap == 2
MaxSelectors == 3
MaxTokenLen == 24

\* ------------------------------------------------------ program constants
DEVICE_VERIFY_WAIT == 30
TWO_FACTOR_WAIT == 120
max_attempts == 30
OTP_SELECTORS == 6
POLL_SLEEP == 2
MIN_DIGITS == 6
MAX_DIGITS == 8
MASK_HEAD == 15
MASK_TAIL == 8
LOG_TAIL == 10

None == <<>>

\* ------------------------------------------------------------------ URLs
Range(s) == {s[i] : i \in 1..Len(s)}

Contains(u, m) ==
    \E i \in 0..(Len(u) - Len(m)) : \A j \in 1..Len(m) : u[i + j] = m[j]

LowerTok(t) == IF t = "SignIn" THEN "signin" ELSE t

Lower(u) == [i \in 1..Len(u) |-> LowerTok(u[i])]

CLAW_HOST == <<"https://", "ap-northeast-1.run.", "claw.cloud">>
GH_HOST == <<"https://", "github.com">>

CLAW_CLOUD_URL == CLAW_HOST
SIGNIN_URL == CLAW_HOST \o <<"/", "signin">>

U_blank == <<"about:blank">>
U_signin == SIGNIN_URL
U_SignIn == CLAW_HOST \o <<"/", "SignIn">>
U_home == CLAW_HOST \o <<"/">>
U_gh == GH_HOST \o <<"/">>
U_login == GH_HOST \o <<"/", "login">>
U_consent == GH_HOST \o <<"/", "login", "/", "oauth", "/", "authorize", "?", "client_id=x">>
U_consent_redir == GH_HOST \o <<"/", "login", "/", "oauth", "/", "authorize", "?",
                               "redirect_uri=", "https%3A%2F%2F", "ap-northeast-1.run.",
                               "claw.cloud", "%2F", "callback">>
U_verified == GH_HOST \o <<"/", "session", "s", "/", "verified-device">>
U_devver == GH_HOST \o <<"/", "session", "s", "/", "device-verification", "/", "prompt">>
U_2fa_app == GH_HOST \o <<"/", "session", "s", "/", "two-factor", "/", "app">>
U_2fa_mobile == GH_HOST \o <<"/", "session", "s", "/", "two-factor", "/", "mobile">>
U_2fa_post == GH_HOST \o <<"/", "session", "s", "/", "two-factor">>
U_2fa_mobile_rt == GH_HOST \o <<"/", "session", "s", "/", "two-factor", "/", "mobile", "?",
                               "return_to=", "https://", "github.com", "/", "login">>

URLS == {U_signin, U_SignIn, U_home, U_gh, U_login, U_consent, U_consent_redir,
         U_verified, U_devver, U_2fa_app, U_2fa_mobile, U_2fa_post, U_2fa_mobile_rt}

\* The host the browser is actually on: the tokens between the scheme and
\* the first "/" (used by the claims, never by the code).
HostIsClaw(u) == Len(u) >= 3 /\ u[1] = "https://" /\ u[3] = "claw.cloud"

\* ------------------------------------------- the URL tests of the source
M_SIGNIN == <<"signin">>
M_VERIFIED_DEVICE == <<"verified-device">>
M_DEVICE_VERIFICATION == <<"device-verification">>
M_TWO_FACTOR == <<"two-factor">>
M_TWO_FACTOR_MOBILE == <<"two-factor", "/", "mobile">>
M_SESSIONS_TWO_FACTOR == <<"github.com", "/", "session", "s", "/", "two-factor", "/">>
M_GH_LOGIN == <<"github.com", "/", "login">>
M_GH_SESSION == <<"github.com", "/", "session">>
M_GH_AUTHORIZE == <<"github.com", "/", "login", "/", "oauth", "/", "authorize">>
M_GITHUB == <<"github.com">>
M_LOGIN == <<"login">>
M_OAUTH == <<"oauth">>
M_CLAW == <<"claw.cloud">>


\* --------------------------------------------------- Telegram message text
\* A text is a sequence of one-character strings.
DIGITS == {"0", "1", "2", "3", "4", "5", "6", "7", "8", "9"}
WHITESPACE == {" ", "\t", "\n"}

RECURSIVE LStrip(_)
LStrip(t) == IF t # <<>> /\ Head(t) \in WHITESPACE THEN LStrip(Tail(t)) ELSE t

RECURSIVE RStrip(_)
RStrip(t) ==
    IF t # <<>> /\ t[Len(t)] \in WHITESPACE THEN RStrip(SubSeq(t, 1, Len(t) - 1)) ELSE t

Strip(t) == RStrip(LStrip(t))

CMD == <<"/", "c", "o", "d", "e">>

\* re.compile(r"^/code\s+(\d{6,8})$").match(t): the digit group, or None.
\* ($ also matches before one trailing newline; Strip has removed it.)
PatternMatch(t) ==
    IF Len(t) > Len(CMD) /\ SubSeq(t, 1, Len(CMD)) = CMD
    THEN LET rest == SubSeq(t, Len(CMD) + 1, Len(t))
             digs == LStrip(rest)
         IN IF /\ Len(digs) < Len(rest)
               /\ Len(digs) >= MIN_DIGITS
               /\ Len(digs) <= MAX_DIGITS
               /\ \A i \in 1..Len(digs) : digs[i] \in DIGITS
            THEN digs
            ELSE None
    ELSE None

T_code6 == CMD \o <<" ", "1", "2", "3", "4", "5", "6">>
T_code5 == CMD \o <<" ", "1", "2", "3", "4", "5">>
TEXTS == {T_code6, T_code5}

CHAT_ID == "own"
CHATS == {"own", "other"}

\* What may arrive: the operator's well-formed and malformed replies, and a
\* well-formed reply from another chat.
MESSAGES == {<<"own", T_code6>>, <<"own", T_code5>>, <<"other", T_code6>>}

\* ------------------------------------------------ URL tests of the source
AlreadyLoggedIn_OnlyOnClaw(u) == ~Contains(Lower(u), M_SIGNIN) /\ Contains(u, M_CLAW)

AlreadyLoggedIn(u) == ~Contains(Lower(u), M_SIGNIN)

OnDevicePath_OneMarker(u) == Contains(u, M_VERIFIED_DEVICE)

OnDevicePath(u) == Contains(u, M_VERIFIED_DEVICE) \/ Contains(u, M_DEVICE_VERIFICATION)

NoTwoFactor_SessionMarker(u) == ~Contains(u, M_GH_SESSION)

NoTwoFactor(u) == ~Contains(u, M_TWO_FACTOR)

IsMobile2fa(u) == Contains(u, M_TWO_FACTOR_MOBILE)

LeftTwoFactor(u) == ~Contains(u, M_SESSIONS_TWO_FACTOR)

BackOnLogin(u) == Contains(u, M_GH_LOGIN)

NeedsGithubLogin(u) == Contains(u, M_GH_LOGIN) \/ Contains(u, M_GH_SESSION)

OnClawCloud(u) == Contains(u, M_CLAW) /\ ~Contains(Lower(u), M_SIGNIN)

OnAuthorizePage(u) == Contains(u, M_GH_AUTHORIZE)

OnOtherGithubPage(u) ==
    Contains(u, M_GITHUB) /\ ~Contains(u, M_LOGIN) /\ ~Contains(u, M_OAUTH)

OnClawSignin(u) == Contains(u, M_CLAW) /\ Contains(Lower(u), M_SIGNIN)

VerifyFails(u) == ~Contains(u, M_CLAW) \/ Contains(Lower(u), M_SIGNIN)

CodeMissing_Unchecked(c) == FALSE

CodeMissing(c) == c = None

NextOffset_SameId(id) == id

NextOffset(id) == id + 1

AttemptAfter_ContinueSkips(a, continued) == IF continued THEN a ELSE a + 1

\* for attempt in range(max_attempts): the index after one iteration,
\* whether it ended in `continue` or fell through to the sleep of line 714.
AttemptAfter_ResetOnProgress(a, continued) == IF continued THEN 0 ELSE a + 1

AttemptAfter(a, continued) == a + 1

\* ------------------------------------------------------------------ state
VARIABLES
    pc,          \* position of the script
    username,    \* GH_USERNAME is set
    password,    \* GH_PASSWORD is set
    tgOk,        \* Telegram.ok
    url,         \* page.url
    browser,     \* "none", "open", "closed"
    exitCode,    \* -1 while running, then the process status
    path,        \* "", "early" (already logged in) or "full"
    notifs,      \* the ok flags of the notify() calls, in order
    ops,         \* the external operations of the last step, in order
    hist,        \* every operation performed so far
    elapsed,     \* seconds since the current wait loop started
    attempt,     \* complete_oauth_flow: loop index
    sel,         \* _handle_code_2fa: index of the OTP selector tried next
    otpFills,    \* _handle_code_2fa: el.fill(code) calls
    otpSubmits,  \* _handle_code_2fa: Verify clicks and Enter presses
    verdicts,    \* _handle_code_2fa: verdicts reported after a submission
    inbox,       \* pending Telegram updates, oldest first
    nextId,      \* update_id of the next update
    offset,      \* wait_code: offset
    flushOffset, \* wait_code: the value flush_updates returned
    staleIds,    \* update ids pending when wait_code was called
    examined,    \* wait_code: update ids the for loop has examined, in order
    code,        \* wait_code's return value
    codeFrom,    \* update id the returned code was taken from (0: none)
    selectors,   \* find_and_click: what each selector of the list meets
    fcNext,      \* find_and_click: index of the selector tried next
    fcTried,     \* find_and_click: selectors tried, in order
    fcClicked,   \* find_and_click: selectors whose el.click() returned
    fcReturn,    \* find_and_click: "" while running, then "True" or "False"
    newCookie,   \* save_cookie: the text of the cookie value (`new` in run)
    secretUpdated, \* save_cookie: what SecretUpdater.update returned
    logs,        \* self.logs from the call of save_cookie on: texts
    tgSent,      \* texts handed to Telegram.send from save_cookie on
    scPc         \* "idle", "save_cookie", "notify", "done"

cfgVars == <<username, password, tgOk>>
fcVars == <<selectors, fcNext, fcTried, fcClicked, fcReturn>>
scVars == <<newCookie, secretUpdated, logs, tgSent, scPc>>
loopVars == <<elapsed, attempt, sel>>
otpVars == <<otpFills, otpSubmits, verdicts>>
tgVars == <<inbox, nextId, offset, flushOffset, staleIds, examined, code, codeFrom>>
runVars == <<pc, url, browser, exitCode, path, notifs, ops, hist,
             cfgVars, loopVars, otpVars, tgVars>>
vars == <<pc, url, browser, exitCode, path, notifs, ops, hist,
          cfgVars, fcVars, scVars, loopVars, otpVars, tgVars>>

Op(kind, op, what) == <<kind, op, what>>
Log(what) == Op("log", "log", what)
Shot(what) == Op("page", "screenshot", what)
TgSend(what) == Op("tg", "send", what)
TgPhoto(what) == Op("tg", "photo", what)

Step(what) == Op("step", "enter", what)

\* hist keeps the steps entered and the final reports, not every operation.
Tracked(o) ==
    \/ o[1] \in {"step", "notify", "secret", "context"}
    \/ o[2] = "wait_code"
    \/ o[3] \in {"code_timeout", "oauth_timeout", "raw_cookie", "device_timeout"}

\* The counters of the history stop at CountCap.
Bump(n) == IF n < CountCap THEN n + 1 ELSE n

\* A request of the Notifier failed during the step (network error, HTTP
\* error answer): "notify" for send and photo, "flush", "poll".
TgFailed(which) == Op("tg", "failed", which)

TG_FAILURES == {TgFailed("notify"), TgFailed("flush"), TgFailed("poll")}

\* The step makes a request in send or photo (both return at once when
\* Telegram is not configured, lines 35-36 and 47-48).
Requests(seq) == tgOk /\ \E o \in Range(seq) : o[1] = "tg" /\ o[2] \in {"send", "photo"}

DoExact(seq) == ops' = seq /\ hist' = hist \cup {o \in Range(seq) : Tracked(o)}

\* The operations of a step; any request of send or photo in it may fail.
Do(seq) ==
    \E failed \in (IF Requests(seq) THEN BOOLEAN ELSE {FALSE}) :
       DoExact(seq \o (IF failed THEN <<TgFailed("notify")>> ELSE <<>>))

NotifierRaised_Propagates(o) == Range(o) \cap TG_FAILURES # {}

\* send, photo, flush_updates and wait_code catch every exception of their
\* request (lines 43-44, 57-58, 73-74, 114-115): none reaches the caller.
NotifierRaised(o) == FALSE

\* Where the script stands after the step: an exception that escaped would
\* reach the handler of line 906 instead.
Goto(target) == pc' = IF NotifierRaised(ops') THEN "except" ELSE target

\* sleep, or a page operation that takes time: 1 + 0..MaxSlack seconds etc.
Took(min) == min..(min + MaxSlack)

InitRun ==
    /\ pc = "start"
    /\ username \in BOOLEAN
    /\ password \in BOOLEAN
    /\ tgOk \in BOOLEAN
    /\ url = U_blank
    /\ browser = "none"
    /\ exitCode = -1
    /\ path = ""
    /\ notifs = <<>>
    /\ ops = <<>>
    /\ hist = {}
    /\ elapsed = 0
    /\ attempt = 0
    /\ sel = 1
    /\ otpFills = 0
    /\ otpSubmits = 0
    /\ verdicts = 0
    /\ inbox = <<>>
    /\ nextId = 1
    /\ offset = 0
    /\ flushOffset = 0
    /\ staleIds = {}
    /\ examined = <<>>
    /\ code = None
    /\ codeFrom = 0

\* find_and_click before its loop, for a given list of selectors.
InitFindAndClick(list) ==
    /\ selectors = list
    /\ fcNext = 1
    /\ fcTried = <<>>
    /\ fcClicked = <<>>
    /\ fcReturn = ""

\* save_cookie and the notification that follows it: not entered ("idle"),
\* or about to be called with a cookie value.
InitSaveCookie(at, cookie) ==
    /\ scPc = at
    /\ newCookie = cookie
    /\ secretUpdated = FALSE
    /\ logs = <<>>
    /\ tgSent = <<>>

Init == InitRun /\ InitFindAndClick(<<>>) /\ InitSaveCookie("idle", <<>>)

\* notify(ok, err): nothing when Telegram is not configured; the photos
\* depend on self.shots being non-empty (screenshots may all have failed).
NotifyOps(ok, err, photo) ==
    IF tgOk
    THEN <<Op("notify", IF ok THEN "ok" ELSE "fail", err), TgSend("final")>>
         \o (IF photo THEN <<TgPhoto("final")>> ELSE <<>>)
    ELSE <<Op("notify", IF ok THEN "ok" ELSE "fail", err)>>

CredentialsMissing_UsernameOnly(u, p) == ~u

\* run(), line 785: `not self.username or not self.password`; an unset
\* variable and an empty one are both missing.
CredentialsMissing(u, p) == ~u \/ ~p

\* run(), lines 781-788: pre-flight credential check.
RunStart ==
    /\ pc = "start"
    /\ IF CredentialsMissing(username, password)
       THEN /\ Do(<<Log("missing_credentials")>> \o NotifyOps(FALSE, "no_credentials", FALSE))
            /\ notifs' = Append(notifs, FALSE)
            /\ exitCode' = 1
            /\ Goto("exited")
       ELSE /\ Do(<<>>)
            /\ Goto("launch")
            /\ UNCHANGED <<notifs, exitCode>>
    /\ UNCHANGED <<url, browser, path, cfgVars, fcVars, scVars, loopVars, otpVars, tgVars>>

\* run(), lines 790-796: launch(), new_context(), new_page().  The three
\* calls stand before the try of line 798: an exception of any of them
\* leaves run() through the with block of line 790 only, reaching neither
\* the handler of line 906 nor browser.close() of line 914, and the
\* interpreter ends with status 1.  `browser` is "closed" once
\* browser.close() has been called.
Launch ==
    /\ pc = "launch"
    /\ \E outcome \in {"ok", "launch_raises", "new_context_raises", "new_page_raises"} :
          CASE outcome = "ok" ->
                 /\ browser' = "open"
                 /\ Do(<<Op("browser", "launch", "")>>)
                 /\ Goto("goto")
                 /\ UNCHANGED exitCode
            [] outcome = "launch_raises" ->
                 /\ Do(<<Op("browser", "launch", "raised")>>)
                 /\ exitCode' = 1
                 /\ Goto("exited")
                 /\ UNCHANGED browser
            [] OTHER ->
                 /\ browser' = "open"
                 /\ Do(<<Op("browser", "launch", ""), Op("browser", outcome, "")>>)
                 /\ exitCode' = 1
                 /\ Goto("exited")
    /\ UNCHANGED <<url, path, notifs, cfgVars, fcVars, scVars, loopVars, otpVars, tgVars>>

\* run(), lines 798-818: cookie preload, page.goto(SIGNIN_URL) (not guarded:
\* a navigation error reaches the handler of line 906), wait, screenshot.
GotoSignin ==
    /\ pc = "goto"
    /\ \E raised \in BOOLEAN, u \in URLS :
          IF raised
          THEN /\ Do(<<Op("page", "goto", "signin")>>)
               /\ Goto("except")
               /\ UNCHANGED url
          ELSE /\ Do(<<Op("page", "goto", "signin"), Shot("clawcloud")>>)
               /\ url' = u
               /\ Goto("check_session")
    /\ UNCHANGED <<browser, exitCode, path, notifs, cfgVars, fcVars, scVars, loopVars, otpVars, tgVars>>

\* run(), lines 820-823 and 832-833.
CheckExistingSession ==
    /\ pc = "check_session"
    /\ IF AlreadyLoggedIn(url)
       THEN /\ Do(<<Log("already_logged_in")>>)
            /\ path' = "early"
            /\ Goto("keepalive")
       ELSE /\ Do(<<Log("step2")>>)
            /\ path' = "full"
            /\ Goto("click_github")
    /\ UNCHANGED <<url, browser, exitCode, notifs, cfgVars, fcVars, scVars, loopVars, otpVars, tgVars>>

\* run(), lines 849-863: find_and_click(github_selectors).
ClickProvider ==
    /\ pc = "click_github"
    /\ \E clicked \in BOOLEAN, u \in URLS, photo \in BOOLEAN :
          IF ~clicked
          THEN /\ Do(<<Step("click_provider"), Log("no_github_button"), Shot("no_button")>>
                     \o NotifyOps(FALSE, "no_github_button", photo))
               /\ notifs' = Append(notifs, FALSE)
               /\ exitCode' = 1
               /\ Goto("finally")
               /\ UNCHANGED url
          ELSE /\ Do(<<Step("click_provider"), Op("page", "click", "github"),
                       Shot("clicked")>>)
               /\ url' = u
               /\ Goto("auth_check")
               /\ UNCHANGED <<notifs, exitCode>>
    /\ UNCHANGED <<browser, path, cfgVars, fcVars, scVars, loopVars, otpVars, tgVars>>

\* run(), lines 865-875: login_github only on a GitHub login/session URL.
AuthCheck ==
    /\ pc = "auth_check"
    /\ IF NeedsGithubLogin(url)
       THEN /\ Do(<<Log("step3"), Step("login_github"), Shot("github_login")>>)
            /\ Goto("lg_fill")
            /\ UNCHANGED attempt
       ELSE /\ Do(<<Log("step3"), Log("step4"), Step("oauth")>>)
            /\ attempt' = 0
            /\ Goto("oauth")
    /\ UNCHANGED <<url, browser, exitCode, path, notifs, cfgVars, fcVars, scVars, elapsed, sel,
                   otpVars, tgVars>>

\* login_github, lines 546-588: fill the credentials, submit, wait.
LoginCredentials ==
    /\ pc = "lg_fill"
    /\ \E fillFails \in BOOLEAN, clicked \in BOOLEAN, u \in URLS :
          IF fillFails
          THEN /\ Do(<<Step("credentials"), Log("fill_failed")>>)
               /\ Goto("login_failed")
               /\ UNCHANGED url
          ELSE /\ Do(<<Step("credentials"), Op("page", "fill", "login"),
                       Op("page", "fill", "password"), Shot("github_filled")>>
                     \o (IF clicked THEN <<Op("page", "click", "sign_in")>> ELSE <<>>)
                     \o <<Shot("github_after_login"), Log("current_page")>>)
               /\ url' = u
               /\ Goto("lg_device_check")
    /\ UNCHANGED <<browser, exitCode, path, notifs, cfgVars, fcVars, scVars, loopVars, otpVars, tgVars>>

\* login_github, lines 590-592, and wait_device, lines 284-299.
DeviceCheck ==
    /\ pc = "lg_device_check"
    /\ IF OnDevicePath(url)
       THEN /\ Do(<<Step("device_verification"), Log("device_needed"), Shot("device"),
                    TgSend("device_needed"), TgPhoto("device")>>)
            /\ elapsed' = 0
            /\ Goto("wd_loop")
       ELSE /\ Do(<<>>)
            /\ Goto("tfa_detect")
            /\ UNCHANGED elapsed
    /\ UNCHANGED <<url, browser, exitCode, path, notifs, cfgVars, fcVars, scVars, attempt, sel,
                   otpVars, tgVars>>

\* wait_device, lines 301-336: one iteration of the polling loop.  The
\* wait_for_load_state of line 324 is not guarded: its timeout leaves
\* wait_device and login_github and reaches the handler of line 906.
WaitDevicePoll ==
    /\ pc = "wd_loop"
    /\ elapsed < DEVICE_VERIFY_WAIT
    /\ IF ~OnDevicePath(url)
       THEN /\ Do(<<Log("device_passed"), TgSend("device_passed")>>)
            /\ Goto("lg_after_device")
            /\ UNCHANGED <<url, elapsed>>
       ELSE \E clicked \in BOOLEAN, raised \in BOOLEAN, u \in URLS, u2 \in URLS,
               d \in Took(1) :
               /\ elapsed' = elapsed + d
               /\ IF ~clicked
                  THEN /\ Do(<<>>)
                       /\ url' = u2
                       /\ Goto("wd_loop")
                  ELSE IF raised
                  THEN /\ Do(<<Op("page", "click", "continue")>>)
                       /\ url' = u
                       /\ Goto("except")
                  ELSE IF ~OnDevicePath(u)
                  THEN /\ Do(<<Op("page", "click", "continue"),
                               Log("device_passed_after_click")>>)
                       /\ url' = u
                       /\ Goto("lg_after_device")
                  ELSE /\ Do(<<Op("page", "click", "continue")>>)
                       /\ url' = u2
                       /\ Goto("wd_loop")
    /\ UNCHANGED <<browser, exitCode, path, notifs, cfgVars, fcVars, scVars, attempt, sel, otpVars, tgVars>>

SweepPassed_Always(u) == TRUE

\* wait_device, line 369: the URL check after the sweep.
SweepPassed(u) == ~OnDevicePath(u)

\* wait_device, lines 338-376: after the deadline, one sweep of forced
\* clicks, then the last URL check.
WaitDeviceTimeout ==
    /\ pc = "wd_loop"
    /\ elapsed >= DEVICE_VERIFY_WAIT
    /\ \E clicked \in BOOLEAN, u \in URLS :
          LET after == IF clicked THEN u ELSE url
              sweep == <<Log("device_wait_timeout")>>
                       \o (IF clicked THEN <<Op("page", "click", "force")>> ELSE <<>>)
          IN /\ url' = after
             /\ IF SweepPassed(after)
                THEN /\ Do(sweep \o <<Log("device_passed_forced"),
                                      TgSend("device_passed_forced")>>)
                     /\ Goto("lg_after_device")
                ELSE /\ Do(sweep \o <<Log("device_timeout"), TgSend("device_timeout")>>)
                     /\ Goto("login_failed")
    /\ UNCHANGED <<browser, exitCode, path, notifs, cfgVars, fcVars, scVars, loopVars, otpVars, tgVars>>

\* login_github, lines 594-602: sleep, wait for the load, screenshot.
AfterDevice ==
    /\ pc = "lg_after_device"
    /\ \E u \in URLS : url' = u
    /\ Do(<<Shot("after_verification")>>)
    /\ elapsed' = 0
    /\ Goto("lg_force")
    /\ UNCHANGED <<browser, exitCode, path, notifs, cfgVars, fcVars, scVars, attempt, sel, otpVars, tgVars>>

\* login_github, lines 602-617: still on the verification page: click the
\* first visible control.  all_buttons.count() of line 607 is not guarded.
ForceContinue ==
    /\ pc = "lg_force"
    /\ IF OnDevicePath(url)
       THEN \E raised \in BOOLEAN, clicked \in BOOLEAN, u \in URLS :
               IF raised
               THEN /\ Do(<<Log("still_on_device_page")>>)
                    /\ Goto("except")
                    /\ UNCHANGED url
               ELSE /\ Do(<<Log("still_on_device_page")>>
                          \o (IF clicked THEN <<Op("page", "click", "any_button")>>
                              ELSE <<>>))
                    /\ url' = (IF clicked THEN u ELSE url)
                    /\ Goto("tfa_detect")
       ELSE /\ Do(<<>>)
            /\ Goto("tfa_detect")
            /\ UNCHANGED url
    /\ UNCHANGED <<browser, exitCode, path, notifs, cfgVars, fcVars, scVars, loopVars, otpVars, tgVars>>

\* detect_and_handle_2fa, lines 383-400; the entry of _handle_mobile_2fa
\* (lines 404-418) and of _handle_code_2fa (lines 458-472).
Detect2fa ==
    /\ pc = "tfa_detect"
    /\ IF NoTwoFactor(url)
       THEN /\ Do(<<Log("detect_2fa"), Log("no_2fa")>>)
            /\ Goto("lg_errcheck")
            /\ UNCHANGED elapsed
       ELSE IF IsMobile2fa(url)
       THEN /\ Do(<<Log("detect_2fa"), Step("two_factor"), Shot("2fa_detect"),
                    Log("mobile_2fa"), Shot("2fa_mobile"), TgSend("mobile_2fa_needed"),
                    TgPhoto("2fa_mobile")>>)
            /\ elapsed' = 0
            /\ Goto("m2_loop")
       ELSE /\ Do(<<Log("detect_2fa"), Step("two_factor"), Shot("2fa_detect"),
                    Log("code_2fa"), Shot("2fa_code"), TgSend("code_2fa_needed"),
                    TgPhoto("2fa_code"), Log("waiting_code")>>)
            /\ Goto("wc_start")
            /\ UNCHANGED elapsed
    /\ UNCHANGED <<url, browser, exitCode, path, notifs, cfgVars, fcVars, scVars, attempt, sel,
                   otpVars, tgVars>>

\* _handle_mobile_2fa, lines 420-450: one iteration: sleep(1), then the URL.
Mobile2faPoll ==
    /\ pc = "m2_loop"
    /\ elapsed < TWO_FACTOR_WAIT
    /\ \E u \in URLS, d \in Took(1) :
          LET e == elapsed + d
          IN /\ url' = u
             /\ elapsed' = e
             /\ IF LeftTwoFactor(u)
                THEN /\ Do(<<Log("mobile_2fa_passed"), TgSend("mobile_2fa_passed")>>)
                     /\ Goto("lg_errcheck")
                ELSE IF BackOnLogin(u)
                THEN /\ Do(<<Log("back_on_login")>>)
                     /\ Goto("login_failed")
                ELSE /\ Do((IF e % 10 = 0
                            THEN <<Log("mobile_2fa_waiting"), Shot("2fa_mobile_wait"),
                                   TgPhoto("2fa_mobile_wait")>>
                            ELSE <<>>)
                           \o (IF e % 30 = 0 THEN <<Op("page", "reload", "")>> ELSE <<>>))
                     /\ Goto("m2_loop")
    /\ UNCHANGED <<browser, exitCode, path, notifs, cfgVars, fcVars, scVars, attempt, sel, otpVars, tgVars>>

\* _handle_mobile_2fa, lines 452-454.
Mobile2faTimeout ==
    /\ pc = "m2_loop"
    /\ elapsed >= TWO_FACTOR_WAIT
    /\ Do(<<Log("mobile_2fa_timeout"), TgSend("mobile_2fa_timeout")>>)
    /\ Goto("login_failed")
    /\ UNCHANGED <<url, browser, exitCode, path, notifs, cfgVars, fcVars, scVars, loopVars, otpVars, tgVars>>

\* ------------------------------------------------------------- Telegram
Ids(q) == {q[i].id : i \in 1..Len(q)}

IdSeq(q) == [i \in 1..Len(q) |-> q[i].id]

\* The operator, or anybody else, sends the bot a message.  Nothing reads
\* the inbox before wait_code, so the messages that are pending when
\* wait_code is called are sent here, just before its flush.
OperatorSends ==
    /\ pc \in {"wc_start", "wc_poll"}
    /\ tgOk
    /\ nextId <= MaxMsgs
    /\ \E m \in MESSAGES :
          inbox' = Append(inbox, [id |-> nextId, chat |-> m[1], text |-> m[2]])
    /\ nextId' = nextId + 1
    /\ UNCHANGED <<pc, url, browser, exitCode, path, notifs, ops, hist, cfgVars, fcVars, scVars,
                   loopVars, otpVars, offset, flushOffset, staleIds, examined,
                   code, codeFrom>>

\* flush_updates, lines 60-75: getUpdates without an offset returns the
\* pending updates; any failure, or an empty result, gives 0.
FlushResult(ok, q) == IF ok /\ q # <<>> THEN q[Len(q)].id + 1 ELSE 0

Accepts_AnyChat(upd) == PatternMatch(Strip(upd.text)) # None

\* wait_code, lines 102-112: the update accepted by the for loop.
Accepts(upd) == upd.chat = CHAT_ID /\ PatternMatch(Strip(upd.text)) # None

FirstAccepted_Last(res) ==
    IF \E i \in 1..Len(res) : Accepts(res[i])
    THEN CHOOSE i \in 1..Len(res) :
            Accepts(res[i]) /\ \A j \in (i + 1)..Len(res) : ~Accepts(res[j])
    ELSE 0

\* Index of the first accepted update of res, or 0.
FirstAccepted(res) ==
    IF \E i \in 1..Len(res) : Accepts(res[i])
    THEN CHOOSE i \in 1..Len(res) :
            Accepts(res[i]) /\ \A j \in 1..(i - 1) : ~Accepts(res[j])
    ELSE 0

\* wait_code, lines 82-88.
WaitCodeStart ==
    /\ pc = "wc_start"
    /\ IF ~tgOk
       THEN /\ DoExact(<<Op("tg", "wait_code", "")>>)
            /\ code' = None
            /\ Goto("c2_got")
            /\ UNCHANGED <<elapsed, offset, flushOffset, staleIds, examined>>
       ELSE \E ok \in BOOLEAN :
               /\ DoExact(<<Op("tg", "wait_code", "")>>
                          \o (IF ok THEN <<>> ELSE <<TgFailed("flush")>>))
               /\ offset' = FlushResult(ok, inbox)
               /\ flushOffset' = FlushResult(ok, inbox)
               /\ staleIds' = Ids(inbox)
               /\ examined' = <<>>
               /\ elapsed' = 0
               /\ Goto("wc_poll")
               /\ UNCHANGED code
    /\ UNCHANGED <<url, browser, exitCode, path, notifs, cfgVars, fcVars, scVars, attempt, sel, otpVars,
                   inbox, nextId, codeFrom>>

\* wait_code, lines 90-117: one iteration.  getUpdates(offset) confirms the
\* updates below offset and returns the others, oldest first.
WaitCodePoll ==
    /\ pc = "wc_poll"
    /\ elapsed < TWO_FACTOR_WAIT
    /\ \E ok \in BOOLEAN, d \in Took(POLL_SLEEP) :
          IF ~ok
          THEN /\ DoExact(<<TgFailed("poll")>>)
               /\ elapsed' = elapsed + d
               /\ Goto("wc_poll")
               /\ UNCHANGED <<inbox, offset, examined, code, codeFrom>>
          ELSE LET res == SelectSeq(inbox, LAMBDA m : m.id >= offset)
                   k == FirstAccepted(res)
                   seen == IF k = 0 THEN res ELSE SubSeq(res, 1, k)
               IN /\ DoExact(<<>>)
                  /\ inbox' = res
                  /\ examined' = examined \o IdSeq(seen)
                  /\ offset' = IF seen = <<>> THEN offset
                               ELSE NextOffset(seen[Len(seen)].id)
                  /\ IF k = 0
                     THEN /\ elapsed' = elapsed + d
                          /\ Goto("wc_poll")
                          /\ UNCHANGED <<code, codeFrom>>
                     ELSE /\ code' = PatternMatch(Strip(res[k].text))
                          /\ codeFrom' = res[k].id
                          /\ Goto("c2_got")
                          /\ UNCHANGED elapsed
    /\ UNCHANGED <<url, browser, exitCode, path, notifs, cfgVars, fcVars, scVars, attempt, sel, otpVars,
                   nextId, flushOffset, staleIds>>

\* wait_code, line 119.
WaitCodeTimeout ==
    /\ pc = "wc_poll"
    /\ elapsed >= TWO_FACTOR_WAIT
    /\ Do(<<>>)
    /\ code' = None
    /\ Goto("c2_got")
    /\ UNCHANGED <<url, browser, exitCode, path, notifs, cfgVars, fcVars, scVars, loopVars, otpVars,
                   inbox, nextId, offset, flushOffset, staleIds, examined, codeFrom>>

\* _handle_code_2fa, lines 473-482.  wait_code's locals are gone and the
\* script never reads the inbox again: the model forgets them here.
Code2faGot ==
    /\ pc = "c2_got"
    /\ IF CodeMissing(code)
       THEN /\ Do(<<Log("code_timeout"), TgSend("code_timeout")>>)
            /\ Goto("login_failed")
            /\ UNCHANGED sel
       ELSE /\ Do(<<Log("code_received"), TgSend("code_received")>>)
            /\ sel' = 1
            /\ Goto("c2_sel")
    /\ elapsed' = 0
    /\ inbox' = <<>>
    /\ nextId' = 1
    /\ offset' = 0
    /\ flushOffset' = 0
    /\ staleIds' = {}
    /\ examined' = <<>>
    /\ codeFrom' = 0
    /\ UNCHANGED <<url, browser, exitCode, path, notifs, cfgVars, fcVars, scVars, attempt, otpVars, code>>

\* _handle_code_2fa, lines 494-538: one OTP selector.  Every exception in
\* the body, the wait_for_load_state timeout after the submission
\* included, is swallowed by line 537 and the loop goes on to the next selector.
Code2faTry ==
    /\ pc = "c2_sel"
    /\ sel <= OTP_SELECTORS
    /\ \E outcome \in {"hidden", "fill_raises", "press_raises", "wait_raises", "verdict"},
          byClick \in BOOLEAN, u \in URLS :
          LET submit == IF byClick THEN Op("page", "click", "verify")
                        ELSE Op("page", "press", "enter")
          IN CASE outcome = "hidden" ->
                    /\ Do(<<>>)
                    /\ sel' = sel + 1
                    /\ UNCHANGED <<pc, url, otpVars>>
               [] outcome = "fill_raises" ->
                    /\ Do(<<Op("page", "fill", "otp")>>)
                    /\ otpFills' = Bump(otpFills)
                    /\ sel' = sel + 1
                    /\ UNCHANGED <<pc, url, otpSubmits, verdicts>>
               [] outcome = "press_raises" ->
                    /\ Do(<<Op("page", "fill", "otp"), Op("page", "press", "enter")>>)
                    /\ otpFills' = Bump(otpFills)
                    /\ sel' = sel + 1
                    /\ UNCHANGED <<pc, url, otpSubmits, verdicts>>
               [] outcome = "wait_raises" ->
                    /\ Do(<<Op("page", "fill", "otp"), submit>>)
                    /\ otpFills' = Bump(otpFills)
                    /\ otpSubmits' = Bump(otpSubmits)
                    /\ url' = u
                    /\ sel' = sel + 1
                    /\ UNCHANGED <<pc, verdicts>>
               [] outcome = "verdict" ->
                    /\ otpFills' = Bump(otpFills)
                    /\ otpSubmits' = Bump(otpSubmits)
                    /\ verdicts' = Bump(verdicts)
                    /\ url' = u
                    /\ sel' = 1
                    /\ IF LeftTwoFactor(u)
                       THEN /\ Do(<<Op("page", "fill", "otp"), submit, Shot("2fa_submitted"),
                                    Log("code_2fa_passed"), TgSend("code_2fa_passed")>>)
                            /\ Goto("lg_errcheck")
                       ELSE /\ Do(<<Op("page", "fill", "otp"), submit, Shot("2fa_submitted"),
                                    Log("wrong_code"), TgSend("wrong_code")>>)
                            /\ Goto("login_failed")
    /\ UNCHANGED <<browser, exitCode, path, notifs, cfgVars, fcVars, scVars, elapsed, attempt, tgVars>>

\* _handle_code_2fa, lines 540-542.
Code2faNoField ==
    /\ pc = "c2_sel"
    /\ sel > OTP_SELECTORS
    /\ Do(<<Log("no_otp_field"), TgSend("no_otp_field")>>)
    /\ sel' = 1
    /\ Goto("login_failed")
    /\ UNCHANGED <<url, browser, exitCode, path, notifs, cfgVars, fcVars, scVars, elapsed, attempt,
                   otpVars, tgVars>>

\* login_github, lines 623-632, and run, lines 874-875 with
\* complete_oauth_flow, lines 636-638.
ErrorCheck ==
    /\ pc = "lg_errcheck"
    /\ \E flash \in BOOLEAN :
          IF flash
          THEN /\ Do(<<Log("flash_error")>>)
               /\ Goto("login_failed")
               /\ UNCHANGED attempt
          ELSE /\ Do(<<Log("step4"), Step("oauth")>>)
               /\ attempt' = 0
               /\ Goto("oauth")
    /\ elapsed' = 0
    /\ UNCHANGED <<url, browser, exitCode, path, notifs, cfgVars, fcVars, scVars, sel, otpVars, tgVars>>

\* run, lines 869-872: login_github returned False.
LoginFailed ==
    /\ pc = "login_failed"
    /\ \E photo \in BOOLEAN :
          Do(<<Shot("login_failed")>> \o NotifyOps(FALSE, "login_failed", photo))
    /\ notifs' = Append(notifs, FALSE)
    /\ exitCode' = 1
    /\ elapsed' = 0
    /\ Goto("finally")
    /\ UNCHANGED <<url, browser, path, cfgVars, fcVars, scVars, attempt, sel, otpVars, tgVars>>

\* complete_oauth_flow, lines 639-716: one iteration of the for loop.
\* `clicked`: find_and_click clicked, or page.goto did not raise, and the
\* iteration ends in `continue`.  On success run, line 881, takes a
\* screenshot before it reads the URL again.
OAuthIteration ==
    /\ pc = "oauth"
    /\ attempt < max_attempts
    /\ \E clicked \in BOOLEAN, u \in URLS :
          IF OnClawCloud(url)
          THEN /\ Do(<<Log("on_clawcloud"), Shot("flow_done")>>)
               /\ url' = u
               /\ Goto("verify")
               /\ attempt' = 0
          ELSE /\ url' = u
               /\ IF OnAuthorizePage(url)
                  THEN /\ Do(IF clicked THEN <<Op("page", "click", "authorize")>> ELSE <<>>)
                       /\ attempt' = AttemptAfter(attempt, clicked)
                  ELSE IF OnOtherGithubPage(url)
                  THEN /\ Do(<<Op("page", "goto", "signin")>>)
                       /\ attempt' = AttemptAfter(attempt, clicked)
                  ELSE IF OnClawSignin(url)
                  THEN /\ Do(IF clicked THEN <<Op("page", "click", "github")>> ELSE <<>>)
                       /\ attempt' = AttemptAfter(attempt, clicked)
                  ELSE /\ Do(<<>>)
                       /\ attempt' = AttemptAfter(attempt, FALSE)
               /\ Goto("oauth")
    /\ UNCHANGED <<browser, exitCode, path, notifs, cfgVars, fcVars, scVars, elapsed, sel, otpVars, tgVars>>

\* complete_oauth_flow, lines 718-719, and run, lines 876-879.
OAuthTimeout ==
    /\ pc = "oauth"
    /\ attempt >= max_attempts
    /\ \E photo \in BOOLEAN :
          Do(<<Log("oauth_timeout"), Shot("oauth_failed")>>
             \o NotifyOps(FALSE, "oauth_failed", photo))
    /\ notifs' = Append(notifs, FALSE)
    /\ exitCode' = 1
    /\ attempt' = 0
    /\ Goto("finally")
    /\ UNCHANGED <<url, browser, path, cfgVars, fcVars, scVars, elapsed, sel, otpVars, tgVars>>

\* run, lines 883-888.
Verify ==
    /\ pc = "verify"
    /\ IF VerifyFails(url)
       THEN /\ \E photo \in BOOLEAN :
                  Do(<<Log("step5"), Shot("verify_failed")>>
                     \o NotifyOps(FALSE, "verify_failed", photo))
            /\ notifs' = Append(notifs, FALSE)
            /\ exitCode' = 1
            /\ Goto("finally")
       ELSE /\ Do(<<Log("step5")>>)
            /\ Goto("keepalive")
            /\ UNCHANGED <<notifs, exitCode>>
    /\ UNCHANGED <<url, browser, path, cfgVars, fcVars, scVars, loopVars, otpVars, tgVars>>

\* keepalive, lines 724-728: urls_to_visit.
KEEPALIVE_PAGES == <<"home", "apps", "account">>

\* keepalive, lines 731-740: one page; `failed`: page.goto raised, which
\* the handler of line 739 logs as a warning.
Visit(i, failed) ==
    <<Op("page", "goto", KEEPALIVE_PAGES[i])>>
    \o (IF i \in failed
        THEN <<Op("page", "raised", KEEPALIVE_PAGES[i]), Op("log", "WARN", KEEPALIVE_PAGES[i])>>
        ELSE <<Op("log", "visited", KEEPALIVE_PAGES[i])>>)

KeepaliveOps_StopsAtFailure(failed) ==
    Visit(1, failed)
    \o (IF 1 \in failed THEN <<>> ELSE Visit(2, failed))
    \o (IF {1, 2} \cap failed # {} THEN <<>> ELSE Visit(3, failed))

\* keepalive, lines 730-740: the for loop over urls_to_visit.
KeepaliveOps(failed) == Visit(1, failed) \o Visit(2, failed) \o Visit(3, failed)

\* keepalive, lines 721-749: the three pages, then the home page again
\* (lines 743-749), whose errors are swallowed too; the screenshot is taken
\* either way.
Keepalive ==
    /\ pc = "keepalive"
    /\ \E u \in URLS : url' = u
    /\ \E failed \in SUBSET (1..Len(KEEPALIVE_PAGES)), lastFailed \in BOOLEAN :
          Do(<<Step("keepalive")>> \o KeepaliveOps(failed)
             \o <<Op("page", "goto", "home_again")>>
             \o (IF lastFailed THEN <<Op("page", "raised", "home_again")>> ELSE <<>>)
             \o <<Shot("done")>>)
    /\ Goto("extract")
    /\ UNCHANGED <<browser, exitCode, path, notifs, cfgVars, fcVars, scVars, loopVars, otpVars, tgVars>>

\* The value of the user_session cookie of a github domain.
TOKEN == <<"t", "o", "k", "e", "n">>

COOKIE_READS == {"raised", "absent", "empty", "token"}

\* get_session, lines 253-261: the cookie's value, or None when the read
\* raised or no cookie matched; an empty value is as false as None.
GetSession(read) == IF read = "token" THEN TOKEN ELSE None

SaveCookieSkipped_Never(value) == FALSE

\* run, lines 826 and 896 (`if new:`), and save_cookie, lines 265-266.
SaveCookieSkipped(value) == value = None

SaveCookieOps_NoFallback(updated) ==
    <<Log("new_cookie_masked"),
      Op("secret", "update", IF updated THEN "true" ELSE "false")>>
    \o (IF updated
        THEN <<Log("secret_updated"), TgSend("cookie_updated")>>
        ELSE <<Log("cookie_sent")>>)

SaveCookieOps_Retry(updated) ==
    <<Log("new_cookie_masked")>>
    \o (IF updated
        THEN <<Op("secret", "update", "true"), Log("secret_updated"),
               TgSend("cookie_updated")>>
        ELSE <<Op("secret", "update", "false"), Op("secret", "update", "false"),
               TgSend("raw_cookie"), Log("cookie_sent")>>)

\* save_cookie, lines 268-280; `updated` is what SecretUpdater.update,
\* lines 134-167, returns: False when it is not configured, on any HTTP
\* status but 201/204 and on any exception.
SaveCookieOps(updated) ==
    <<Log("new_cookie_masked"),
      Op("secret", "update", IF updated THEN "true" ELSE "false")>>
    \o (IF updated
        THEN <<Log("secret_updated"), TgSend("cookie_updated")>>
        ELSE <<TgSend("raw_cookie"), Log("cookie_sent")>>)

\* run, lines 825-827 and 894-899: get_session and save_cookie.
ExtractToken ==
    /\ pc = "extract"
    /\ \E read \in COOKIE_READS, updated \in BOOLEAN :
          LET new == GetSession(read)
          IN Do(<<Step("extract_token"), Op("context", "cookies", read)>>
                \o (IF SaveCookieSkipped(new)
                    THEN (IF path = "full" THEN <<Log("no_new_cookie")>> ELSE <<>>)
                    ELSE SaveCookieOps(updated)))
    /\ Goto("notify_ok")
    /\ UNCHANGED <<url, browser, exitCode, path, notifs, cfgVars, fcVars, scVars, loopVars, otpVars, tgVars>>

\* run, lines 828-830 and 901-904.
NotifySuccess ==
    /\ pc = "notify_ok"
    /\ \E photo \in BOOLEAN : Do(NotifyOps(TRUE, "", photo))
    /\ notifs' = Append(notifs, TRUE)
    /\ exitCode' = 0
    /\ Goto("finally")
    /\ UNCHANGED <<url, browser, path, cfgVars, fcVars, scVars, loopVars, otpVars, tgVars>>

\* run, lines 906-912: an exception escaped the try block.
ExceptHandler ==
    /\ pc = "except"
    /\ \E photo \in BOOLEAN :
          Do(<<Log("exception"), Shot("exception")>> \o NotifyOps(FALSE, "exception", photo))
    /\ notifs' = Append(notifs, FALSE)
    /\ exitCode' = 1
    /\ elapsed' = 0
    /\ Goto("finally")
    /\ UNCHANGED <<url, browser, path, cfgVars, fcVars, scVars, attempt, sel, otpVars, tgVars>>

\* run, lines 913-914.
Finally ==
    /\ pc = "finally"
    /\ browser' = "closed"
    /\ Do(<<Op("browser", "close", "")>>)
    /\ Goto("exited")
    /\ UNCHANGED <<url, exitCode, path, notifs, cfgVars, fcVars, scVars, loopVars, otpVars, tgVars>>

\* One step of the script: everything but the messages other people send.
ScriptStep ==
    \/ RunStart
    \/ Launch
    \/ GotoSignin
    \/ CheckExistingSession
    \/ ClickProvider
    \/ AuthCheck
    \/ LoginCredentials
    \/ DeviceCheck
    \/ WaitDevicePoll
    \/ WaitDeviceTimeout
    \/ AfterDevice
    \/ ForceContinue
    \/ Detect2fa
    \/ Mobile2faPoll
    \/ Mobile2faTimeout
    \/ WaitCodeStart
    \/ WaitCodePoll
    \/ WaitCodeTimeout
    \/ Code2faGot
    \/ Code2faTry
    \/ Code2faNoField
    \/ ErrorCheck
    \/ LoginFailed
    \/ OAuthIteration
    \/ OAuthTimeout
    \/ Verify
    \/ Keepalive
    \/ ExtractToken
    \/ NotifySuccess
    \/ ExceptHandler
    \/ Finally

Next == ScriptStep \/ OperatorSends

Spec == Init /\ [][Next]_vars

\* The script is one thread that takes its next step as long as it has
\* one: every sleep and every request of the source has a timeout.
SpecLive == Init /\ [][Next]_vars /\ WF_vars(ScriptStep)

\* ------------------------------------------------------- find_and_click
\* find_and_click(page, selectors, desc, timeout), lines 239-251, on its
\* own: the list of selectors is the input, and each selector meets one of
\* four things on the page.
\*   "hidden"          is_visible() returns False
\*   "visible_raises"  locator() or is_visible() raises
\*   "click_raises"    the element is visible and el.click() raises
\*   "clicked"         the element is visible and el.click() returns
SELECTOR_OUTCOMES == {"hidden", "visible_raises", "click_raises", "clicked"}

SELECTOR_LISTS ==
    UNION {[1..n -> SELECTOR_OUTCOMES] : n \in 0..MaxSelectors}

StopsAt_Never(outcome) == FALSE

\* Lines 244-247: only a click that returned reaches "return True"; a
\* False from is_visible() falls through to the next selector and both
\* exceptions are caught by line 248 and "continue".
StopsAt(outcome) == outcome = "clicked"

\* One turn of "for sel in selectors".
FindAndClickTry ==
    /\ fcReturn = ""
    /\ fcNext <= Len(selectors)
    /\ fcTried' = Append(fcTried, fcNext)
    /\ fcClicked' = IF selectors[fcNext] = "clicked"
                    THEN Append(fcClicked, fcNext) ELSE fcClicked
    /\ IF StopsAt(selectors[fcNext])
       THEN fcReturn' = "True" /\ fcNext' = fcNext
       ELSE fcReturn' = "" /\ fcNext' = fcNext + 1
    /\ UNCHANGED <<selectors, runVars, scVars>>

\* Line 251: the list is exhausted.
FindAndClickExhausted ==
    /\ fcReturn = ""
    /\ fcNext > Len(selectors)
    /\ fcReturn' = "False"
    /\ UNCHANGED <<selectors, fcNext, fcTried, fcClicked, runVars, scVars>>

InitClick ==
    /\ InitRun
    /\ \E list \in SELECTOR_LISTS : InitFindAndClick(list)
    /\ InitSaveCookie("idle", <<>>)

NextClick == FindAndClickTry \/ FindAndClickExhausted

SpecClick == InitClick /\ [][NextClick]_vars

\* ------------------------------------------- save_cookie and notify, texts
\* save_cookie(value) followed by notify(True), as run calls them at lines
\* 825-828 and 896-901, with the texts they build.  A text is a sequence of
\* one-character strings; a fixed piece of text is one element.
TOKEN_ALPHABET == <<"a", "B", "3", "_">>

\* A cookie value of n characters.
Tok(n) == [i \in 1..n |-> TOKEN_ALPHABET[((i - 1) % Len(TOKEN_ALPHABET)) + 1]]

TOKENS == {Tok(n) : n \in 1..MaxTokenLen}

\* value[:k] and value[-k:] of Python: the whole value when it is shorter.
Prefix(v, k) == SubSeq(v, 1, IF Len(v) < k THEN Len(v) ELSE k)

Suffix(v, k) == SubSeq(v, IF Len(v) < k THEN 1 ELSE Len(v) - k + 1, Len(v))

\* Line 268: f"新 Cookie: {value[:15]}...{value[-8:]}".
MaskedLine(v) ==
    <<"new cookie: ">> \o Prefix(v, MASK_HEAD) \o <<".", ".", ".">>
    \o Suffix(v, MASK_TAIL)

L_secret_updated == <<"GH_SESSION updated">>
L_cookie_sent == <<"cookie sent by Telegram">>
M_cookie_updated == <<"cookie updated, GH_SESSION saved">>

\* Lines 276-279: the fallback message carries the value between <code> tags.
RawCookieMessage(v) == <<"new cookie, update GH_SESSION: <code>">> \o v \o <<"</code>">>

\* self.logs[-10:]
LastLogs(l) == SubSeq(l, IF Len(l) < LOG_TAIL THEN 1 ELSE Len(l) - LOG_TAIL + 1, Len(l))

RECURSIVE JoinLines(_)
JoinLines(l) ==
    IF l = <<>> THEN <<>>
    ELSE IF Len(l) = 1 THEN l[1]
    ELSE l[1] \o <<"\n">> \o JoinLines(Tail(l))

\* notify, lines 755-766: status, user, time, then the last log lines.
NotifyMessage(l) == <<"status, user, time, logs:", "\n">> \o JoinLines(LastLogs(l))

\* save_cookie, lines 263-280.  Telegram.send is called in both branches.
SaveCookie ==
    /\ scPc = "save_cookie"
    /\ \E upd \in BOOLEAN :
          /\ secretUpdated' = upd
          /\ logs' = logs \o <<MaskedLine(newCookie)>>
                      \o (IF upd THEN <<L_secret_updated>> ELSE <<L_cookie_sent>>)
          /\ tgSent' = Append(tgSent, IF upd THEN M_cookie_updated
                                      ELSE RawCookieMessage(newCookie))
    /\ scPc' = "notify"
    /\ UNCHANGED <<newCookie, runVars, fcVars>>

\* notify(True), lines 751-766: nothing is built when Telegram is not
\* configured.
NotifyAfterSave ==
    /\ scPc = "notify"
    /\ tgSent' = IF tgOk THEN Append(tgSent, NotifyMessage(logs)) ELSE tgSent
    /\ scPc' = "done"
    /\ UNCHANGED <<newCookie, secretUpdated, logs, runVars, fcVars>>

InitCookie ==
    /\ InitRun
    /\ InitFindAndClick(<<>>)
    /\ \E v \in TOKENS : InitSaveCookie("save_cookie", v)

NextCookie == SaveCookie \/ NotifyAfterSave

SpecCookie == InitCookie /\ [][NextCookie]_vars

\* ================================================================ claims
AUTH_STEPS == {Step("click_provider"), Step("login_github"), Step("credentials"),
               Step("device_verification"), Step("two_factor"), Step("oauth")}

AfterRun == pc \in {"finally", "exited"}

\* C1: when the URL read after the first navigation does not contain the
\* sign-in marker, the run goes straight to keepalive, then to the token
\* extraction, then to the success notification, and never enters the
\* provider click, the credentials, the device verification, the 2FA step
\* or the OAuth loop.
C1_SessionReuseSkipsLogin ==
    [][/\ (pc = "check_session" /\ ~Contains(Lower(url), M_SIGNIN))
            => (pc' = "keepalive" /\ path' = "early")
       /\ (path = "early" /\ pc = "keepalive") => pc' = "extract"
       /\ (path = "early" /\ pc = "extract") => pc' = "notify_ok"
       /\ (path = "early" /\ pc = "notify_ok") => (notifs' = <<TRUE>> /\ exitCode' = 0)
       /\ path' = "early" => hist' \cap AUTH_STEPS = {}]_vars

C1_Witness ==
    /\ path = "early"
    /\ pc = "exited"
    /\ exitCode = 0
    /\ Step("keepalive") \in hist
    /\ Step("extract_token") \in hist

\* C2: wait_device has just returned True only in states whose URL holds
\* neither device-verification marker.
C2_DeviceSuccessOffDevicePath ==
    pc = "lg_after_device"
        => /\ ~Contains(url, M_VERIFIED_DEVICE)
           /\ ~Contains(url, M_DEVICE_VERIFICATION)

C2_Witness ==
    /\ pc = "lg_after_device"
    /\ Log("device_passed_after_click") \in Range(ops)

\* C3: from a URL without the two-factor marker detect_and_handle_2fa
\* returns True having called no Notifier operation and no page operation,
\* and having changed neither the page nor the Telegram state.
C3_No2faNoInteraction ==
    [][(pc = "tfa_detect" /\ ~Contains(url, M_TWO_FACTOR))
          => /\ pc' = "lg_errcheck"
             /\ \A i \in 1..Len(ops') : ops'[i][1] \notin {"tg", "page"}
             /\ url' = url
             /\ UNCHANGED tgVars]_vars

C3_Witness ==
    /\ pc = "lg_errcheck"
    /\ ops = <<Log("detect_2fa"), Log("no_2fa")>>
    /\ ~Contains(url, M_TWO_FACTOR)

\* The browser is on GitHub's login page itself (not the OAuth pages below it).
OnBaseLogin(u) ==
    /\ Len(u) >= 4
    /\ SubSeq(u, 1, 4) = GH_HOST \o <<"/", "login">>
    /\ ~Contains(u, M_OAUTH)

\* C4: in the mobile variant a poll that finds the browser back on the
\* provider's login page ends the step in failure, and the step succeeds
\* only on a URL that is off the two-factor path and is not the login page.
C4_MobileLoginFallbackFails ==
    [][pc = "m2_loop"
          => /\ OnBaseLogin(url') => pc' = "login_failed"
             /\ pc' = "lg_errcheck"
                   => (~Contains(url', M_SESSIONS_TWO_FACTOR) /\ ~OnBaseLogin(url'))]_vars

Passed2fa ==
    /\ pc = "lg_errcheck"
    /\ \/ Log("mobile_2fa_passed") \in Range(ops)
       \/ Log("code_2fa_passed") \in Range(ops)

SubmittedOtp ==
    /\ Op("page", "fill", "otp") \in Range(ops)
    /\ \/ Op("page", "click", "verify") \in Range(ops)
       \/ Op("page", "press", "enter") \in Range(ops)

\* C5: the 2FA step, once entered, returns True only on a URL without the
\* two-factor marker, and in the code variant a URL that still holds the
\* marker after the submission gives the wrong-code report and failure.
C5_2faSuccessOffTwoFactor ==
    /\ Passed2fa => ~Contains(url, M_TWO_FACTOR)
    /\ (SubmittedOtp /\ Contains(url, M_TWO_FACTOR))
          => (pc = "login_failed" /\ Log("wrong_code") \in Range(ops))

\* C6: when wait_code returns no code the step logs and sends the timeout
\* report and fails; no OTP field is filled, nothing is submitted, and the
\* run ends with a failure notification and exit status 1.
C6_NoCodeNoSubmission ==
    [][/\ (pc = "c2_got" /\ code = None)
            => /\ pc' = "login_failed"
               /\ Log("code_timeout") \in Range(ops')
               /\ TgSend("code_timeout") \in Range(ops')
       /\ Log("code_timeout") \in hist'
            => /\ otpFills' = 0
               /\ otpSubmits' = 0
               /\ pc' \in {"login_failed", "finally", "exited"}
               /\ AfterRun' => (exitCode' = 1 /\ notifs' = <<FALSE>>)]_vars

C6_Witness ==
    /\ pc = "exited"
    /\ tgOk
    /\ Log("code_timeout") \in hist
    /\ exitCode = 1
    /\ browser = "closed"

\* C7: complete_oauth_flow runs at most max_attempts iterations, each one
\* that does not see a claw.cloud URL without the sign-in marker uses up one
\* attempt (the ones that click or navigate too); after the last one it
\* logs the OAuth timeout, and the run sends the OAuth failure notification
\* and exits with status 1 without ever entering keepalive.
C7_OAuthBudget ==
    [][/\ attempt' <= max_attempts
       /\ (pc = "oauth" /\ ~(Contains(url, M_CLAW) /\ ~Contains(Lower(url), M_SIGNIN)))
            => \/ pc' = "oauth" /\ attempt < max_attempts /\ attempt' = attempt + 1
               \/ /\ attempt = max_attempts
                  /\ pc' = "finally"
                  /\ Log("oauth_timeout") \in Range(ops')
                  /\ Op("notify", "fail", "oauth_failed") \in Range(ops')
                  /\ notifs' = <<FALSE>>
                  /\ exitCode' = 1
       /\ Log("oauth_timeout") \in hist'
            => /\ AfterRun'
               /\ exitCode' = 1
               /\ Step("keepalive") \notin hist']_vars

C7_Witness ==
    /\ pc = "exited"
    /\ Log("oauth_timeout") \in hist
    /\ Op("notify", "fail", "oauth_failed") \in hist
    /\ exitCode = 1

\* The browser is on the target site and not on its sign-in page.
OnTargetSignedIn(u) == HostIsClaw(u) /\ ~Contains(Lower(u), M_SIGNIN)

\* C8: on the full path the verification after the OAuth loop lets the run
\* go on to keepalive only when the browser is on the target site
\* and not on its sign-in page; otherwise the run fails.
C8_VerifiedOnTarget ==
    [][/\ (pc = "verify" /\ pc' = "keepalive") => OnTargetSignedIn(url)
       /\ (pc = "verify" /\ ~OnTargetSignedIn(url))
            => (pc' = "finally" /\ exitCode' = 1)]_vars

\* C9: the code wait_code returns never comes from an update that was
\* pending when wait_code was called.
C9_StaleCodeDiscarded ==
    codeFrom # 0 => codeFrom \notin staleIds

NoDuplicates(q) == \A i, j \in 1..Len(q) : q[i] = q[j] => i = j

\* C10: the returned code comes from an update at or above the offset
\* flush_updates gave, the polling offset never decreases during the call,
\* and no update is examined twice.
C10_OffsetReplayProtection ==
    [][/\ codeFrom' # 0 => codeFrom' >= flushOffset'
       /\ (pc = "wc_poll" /\ pc' \in {"wc_poll", "c2_got"}) => offset' >= offset
       /\ NoDuplicates(examined')]_vars

C10_Witness ==
    /\ pc = "c2_got"
    /\ flushOffset > 0
    /\ codeFrom >= flushOffset
    /\ offset > flushOffset

\* The update the returned code was taken from, as the inbox still holds it.
CodeSource == {i \in 1..Len(inbox) : inbox[i].id = codeFrom}

\* C11: the code wait_code returns was taken from an update whose chat is
\* the configured chat, whatever other chats sent before it, a well-formed
\* /code command included.
C11_CodeOnlyFromOwnChat ==
    /\ (pc = "c2_got" /\ code # None) => codeFrom # 0
    /\ codeFrom # 0 =>
          /\ CodeSource # {}
          /\ \A i \in CodeSource : inbox[i].chat = CHAT_ID

C11_Witness ==
    /\ pc = "c2_got"
    /\ code # None
    /\ \E i \in 1..Len(inbox) :
          /\ inbox[i].chat # CHAT_ID
          /\ inbox[i].id < codeFrom
          /\ inbox[i].id \in Range(examined)
          /\ PatternMatch(Strip(inbox[i].text)) # None

SECRET_UPDATES == {Op("secret", "update", "true"), Op("secret", "update", "false")}

\* Number of positions of seq that hold an element of S.
Count(seq, S) == Cardinality({i \in 1..Len(seq) : seq[i] \in S})

\* C12: in the step in which update('GH_SESSION', value) returns false the
\* raw value is handed to send exactly once and update is called exactly
\* once; no later step calls update or sends the raw value again.
C12_FallbackExactlyOnce ==
    [][/\ Op("secret", "update", "false") \in Range(ops') =>
             /\ Count(ops', {TgSend("raw_cookie")}) = 1
             /\ Count(ops', SECRET_UPDATES) = 1
       /\ (hist \cap SECRET_UPDATES # {}) =>
             Range(ops') \cap (SECRET_UPDATES \cup {TgSend("raw_cookie")}) = {}]_vars

C12_Witness ==
    /\ pc = "exited"
    /\ Op("secret", "update", "false") \in hist
    /\ TgSend("raw_cookie") \in hist

\* C13: a run that launched a browser has called browser.close() when the
\* process ends, whatever the outcome.
C13_BrowserAlwaysClosed ==
    (pc = "exited" /\ browser # "none") => browser = "closed"

\* C14: a run that ends with a non-zero status has issued its failure
\* notification, and only that one, before it ends; a run that ends with
\* status 0 has issued the success notification.
C14_FailureNotifiedBeforeExit ==
    /\ (pc = "exited" /\ exitCode # 0) => notifs = <<FALSE>>
    /\ (pc = "exited" /\ exitCode = 0) => notifs = <<TRUE>>

\* C15: every run ends: whatever the pages and the inbox answer, the
\* script reaches its exit, each wait ending at its deadline or budget.
C15_RunTerminates == <>(pc = "exited")

C15_Witness ==
    /\ pc = "exited"
    /\ {Step("device_verification"), Step("two_factor"), Step("oauth"),
        Log("oauth_timeout")} \subseteq hist

\* The page.goto calls of a step, in order.
Gotos(seq) == SelectSeq(seq, LAMBDA o : o[1] = "page" /\ o[2] = "goto")

\* C16: keepalive requests home, apps and account in this order whichever
\* of them fail to load, logs a warning for each page that failed, and
\* always returns to run(), which goes on to the token extraction.
C16_KeepaliveToleratesFailures ==
    [][pc = "keepalive" =>
          /\ Len(Gotos(ops')) >= 3
          /\ SubSeq(Gotos(ops'), 1, 3) = <<Op("page", "goto", "home"),
                                           Op("page", "goto", "apps"),
                                           Op("page", "goto", "account")>>
          /\ \A n \in {"home", "apps", "account"} :
                Op("page", "raised", n) \in Range(ops') => Op("log", "WARN", n) \in Range(ops')
          /\ pc' = "extract"
          /\ exitCode' = -1]_vars

C16_Witness ==
    /\ pc = "extract"
    /\ Op("page", "raised", "home") \in Range(ops)
    /\ Op("log", "WARN", "home") \in Range(ops)
    /\ Op("page", "raised", "apps") \in Range(ops)
    /\ Op("log", "visited", "account") \in Range(ops)

COOKIE_MISSES == {Op("context", "cookies", r) : r \in COOKIE_READS \ {"token"}}

\* C17: when the cookie read after keepalive raises or gives no session
\* cookie, the run calls neither update nor send with a raw token, goes on
\* to the success notification and ends with status 0.
C17_MissingCookieStillSucceeds ==
    (hist \cap COOKIE_MISSES # {}) =>
        /\ hist \cap SECRET_UPDATES = {}
        /\ TgSend("raw_cookie") \notin hist
        /\ pc \in {"notify_ok", "finally", "exited"}
        /\ pc = "notify_ok" => exitCode = -1
        /\ AfterRun => (exitCode = 0 /\ notifs = <<TRUE>>)

C17_Witness ==
    /\ pc = "exited"
    /\ path = "full"
    /\ Op("context", "cookies", "raised") \in hist
    /\ Op("notify", "ok", "") \in hist
    /\ exitCode = 0

\* A step of the script in which no request of the Notifier failed, and
\* which leaves the script in the given state.
CleanStepTo(c, e, n, u, b, p, t, a, k, f, g) ==
    /\ ScriptStep
    /\ Range(ops') \cap TG_FAILURES = {}
    /\ pc' = c /\ exitCode' = e /\ notifs' = n /\ url' = u /\ browser' = b /\ path' = p
    /\ elapsed' = t /\ attempt' = a /\ sel' = k /\ otpVars' = f /\ tgVars' = g

\* The Telegram variables once wait_code has returned and its caller has
\* read the code: only the code is left.
ForgottenCall == <<<<>>, 1, 0, 0, {}, <<>>, code, 0>>

PCS == {"start", "launch", "goto", "check_session", "click_github", "auth_check",
        "lg_fill", "lg_device_check", "wd_loop", "lg_after_device", "lg_force",
        "tfa_detect", "m2_loop", "wc_start", "wc_poll", "c2_got", "c2_sel",
        "lg_errcheck", "login_failed", "oauth", "verify", "keepalive", "extract",
        "notify_ok", "except", "finally", "exited"}

\* C18: a failed request of send, photo, flush_updates or wait_code never
\* takes the script to the exception handler: after a failed flush the
\* offset is 0 and the polling starts, after a failed poll there is no code
\* and the wait goes on, and the state the script has after a step in
\* which send or photo failed is a state the same step gives without any
\* failure (position, exit status, notification record, URL, browser,
\* path, clocks, counters and what is known of the inbox).
C18_NotifierFailuresSwallowed ==
    [][/\ (Range(ops') \cap TG_FAILURES # {}) => pc' # "except"
       /\ TgFailed("flush") \in Range(ops') =>
             (pc' = "wc_poll" /\ flushOffset' = 0 /\ offset' = 0)
       /\ TgFailed("poll") \in Range(ops') =>
             (pc' = "wc_poll" /\ code' = None /\ codeFrom' = 0 /\ offset' = offset)
       /\ (TgFailed("notify") \in Range(ops') /\ ScriptStep) =>
             \A c \in PCS : pc' = c =>
             \A e \in {-1, 0, 1} : exitCode' = e =>
             \A n \in {<<>>, <<TRUE>>, <<FALSE>>} : notifs' = n =>
             \A u \in URLS \cup {U_blank} : url' = u =>
             \A b \in {"none", "open", "closed"} : browser' = b =>
             \A p \in {"", "early", "full"} : path' = p =>
             \A t \in 0..(TWO_FACTOR_WAIT + POLL_SLEEP + MaxSlack) : elapsed' = t =>
             \A a \in 0..max_attempts : attempt' = a =>
             \A k \in 1..(OTP_SELECTORS + 1) : sel' = k =>
             \A f \in (0..CountCap) \X (0..CountCap) \X (0..CountCap) : otpVars' = f =>
                /\ tgVars' \in {tgVars, ForgottenCall}
                /\ \A g \in {tgVars, ForgottenCall} : tgVars' = g =>
                      ENABLED CleanStepTo(c, e, n, u, b, p, t, a, k, f, g)]_vars

C18_Witness ==
    /\ pc = "finally"
    /\ exitCode = 0
    /\ TgFailed("notify") \in Range(ops)
    /\ Op("tg", "wait_code", "") \in hist

COOKIE_READ_OPS == {Op("context", "cookies", r) : r \in COOKIE_READS}

\* The operations of get_session and of save_cookie.
TOKEN_OPS == COOKIE_READ_OPS \cup SECRET_UPDATES
             \cup {Log("new_cookie_masked"), TgSend("raw_cookie"), TgSend("cookie_updated")}

\* C19: the session cookie is read once and update is called at most once
\* in a run, both in the step that follows keepalive, and keepalive is
\* entered only from the session check or the verification that found the
\* run signed in; that step leaves the run on its way to the success
\* notification, so no run that ends with a failure has called save_cookie
\* or update.
C19_TokenOnceAfterKeepalive ==
    [][/\ (Range(ops') \cap TOKEN_OPS # {} /\ ScriptStep) =>
             /\ pc = "extract"
             /\ Step("keepalive") \in hist
             /\ Count(ops', COOKIE_READ_OPS) = 1
             /\ Count(ops', SECRET_UPDATES) <= 1
             /\ Count(ops', {Log("new_cookie_masked")}) = Count(ops', SECRET_UPDATES)
             /\ hist \cap TOKEN_OPS = {}
             /\ exitCode' = -1
             /\ pc' = "notify_ok"
       /\ pc' = "extract" => pc \in {"extract", "keepalive"}
       /\ (pc # "keepalive" /\ pc' = "keepalive") =>
             \/ pc = "check_session" /\ ~Contains(Lower(url), M_SIGNIN)
             \/ pc = "verify" /\ Contains(url, M_CLAW) /\ ~Contains(Lower(url), M_SIGNIN)
       /\ (hist \cap TOKEN_OPS # {}) => exitCode' \in {-1, 0}]_vars

C19_Witness ==
    /\ pc = "exited"
    /\ exitCode = 0
    /\ path = "full"
    /\ Step("two_factor") \in hist
    /\ Op("secret", "update", "true") \in hist

\* What a run does after login_github: the 2FA step, the OAuth loop,
\* keepalive and the token extraction.
LATER_STEPS == {Step("two_factor"), Step("oauth"), Step("keepalive"), Step("extract_token"),
                Op("tg", "wait_code", "")}

\* C20: when the wait of wait_device is over and the URL read after the
\* sweep of forced clicks still holds a device-verification marker,
\* wait_device reports the timeout and the run fails: it goes from there
\* to the failure notification and the exit with status 1 only, and has
\* entered neither the 2FA step, nor the OAuth loop, nor keepalive, nor the
\* token extraction.
C20_DeviceTimeoutFails ==
    [][/\ (/\ pc = "wd_loop" /\ elapsed >= DEVICE_VERIFY_WAIT
           /\ \/ Contains(url', M_VERIFIED_DEVICE)
              \/ Contains(url', M_DEVICE_VERIFICATION))
          => (pc' = "login_failed" /\ Log("device_timeout") \in Range(ops'))
       /\ Log("device_timeout") \in hist =>
             /\ hist \cap LATER_STEPS = {}
             /\ \/ pc = "login_failed" /\ pc' = "finally" /\ notifs' = <<FALSE>>
                \/ pc = "finally" /\ pc' = "exited"
             /\ exitCode' = 1
             /\ hist' \cap LATER_STEPS = {}]_vars

C20_Witness ==
    /\ pc = "exited"
    /\ exitCode = 1
    /\ Log("device_timeout") \in hist
    /\ Op("notify", "fail", "login_failed") \in hist
    /\ browser = "closed"

\* Operations on the browser, its context or a page.
BrowserOps(seq) == {o \in Range(seq) : o[1] \in {"browser", "page", "context"}}

\* C21: without a username or without a password the first step of the
\* run issues the failure notification and ends the process with status 1;
\* no browser is launched and no page is opened or acted on, then or later.
C21_MissingCredentialsPreflight ==
    [][(~username \/ ~password) =>
          /\ pc = "start" => (/\ pc' = "exited" /\ exitCode' = 1
                              /\ notifs' = <<FALSE>>
                              /\ Op("notify", "fail", "no_credentials") \in Range(ops'))
          /\ pc \in {"start", "exited"}
          /\ browser' = "none" /\ url' = U_blank
          /\ BrowserOps(ops') = {}]_vars

C21_Witness ==
    /\ pc = "exited"
    /\ username /\ ~password
    /\ notifs = <<FALSE>>
    /\ exitCode = 1
    /\ browser = "none"


\* C22: find_and_click tries the selectors in list order and clicks at most
\* once, on the first selector whose element is visible and whose click
\* succeeds; it returns True exactly when that click happened, and returns
\* False, without raising, when no selector matched.  A selector that is
\* hidden or raises only moves the loop on to the next one.
C22_FirstClickableSelector ==
    /\ fcReturn \in {"", "True", "False"}
    /\ fcTried = [i \in 1..Len(fcTried) |-> i]
    /\ Len(fcClicked) <= 1
    /\ fcReturn = "True" <=> fcClicked # <<>>
    /\ fcClicked # <<>> =>
          /\ selectors[fcClicked[1]] = "clicked"
          /\ \A j \in 1..(fcClicked[1] - 1) : selectors[j] # "clicked"
          /\ Len(fcTried) = fcClicked[1]
    /\ fcReturn = "False" =>
          /\ Len(fcTried) = Len(selectors)
          /\ \A j \in 1..Len(selectors) : selectors[j] # "clicked"
    /\ fcReturn = "" =>
          \A j \in 1..Len(fcTried) : selectors[j] # "clicked"

C22_Witness ==
    /\ fcReturn = "True"
    /\ Len(selectors) = 3
    /\ selectors[1] = "click_raises"
    /\ selectors[2] = "clicked"
    /\ selectors[3] = "clicked"
    /\ fcClicked = <<2>>


\* A text that, once trimmed, is "/code", some whitespace and n digits.
IsCodeCommand(t, n) ==
    LET s == Strip(t)
    IN /\ Len(s) > Len(CMD) + n
       /\ \A i \in 1..Len(CMD) : s[i] = CMD[i]
       /\ \A i \in (Len(CMD) + 1)..(Len(s) - n) : s[i] \in WHITESPACE
       /\ \A i \in (Len(s) - n + 1)..Len(s) : s[i] \in DIGITS

Qualifies(m) ==
    m.chat = CHAT_ID /\ \E n \in 6..8 : IsCodeCommand(m.text, n)

DigitGroup(t) ==
    LET s == Strip(t)
        n == CHOOSE n \in 6..8 : IsCodeCommand(t, n)
    IN SubSeq(s, Len(s) - n + 1, Len(s))

\* Texts around the edges of the pattern.
EDGE_TEXTS ==
    {T_code6, T_code5,
     CMD \o <<"1", "2", "3", "4", "5", "6">>,
     CMD \o <<" ", "\t", "1", "2", "3", "4", "5", "6", "7">>,
     <<" ">> \o CMD \o <<" ", "1", "2", "3", "4", "5", "6", "7", "8", "\n">>,
     CMD \o <<" ", "1", "2", "3", "4", "5", "6", "7", "8", "9">>,
     CMD \o <<" ", "1", "2", "3", "a", "5", "6">>,
     CMD \o <<" ", "1", "2", "3", " ", "4", "5", "6">>,
     <<"x">> \o CMD \o <<" ", "1", "2", "3", "4", "5", "6">>,
     CMD \o <<" ", "1", "2", "3", "4", "5", "6", " ", "x">>,
     CMD, <<>>}

\* C23: the value wait_code returns is the digit group of the first update,
\* in update order, among those its polling receives, that comes from the
\* configured chat and whose trimmed text is "/code", whitespace and 6 to 8
\* digits; the updates it passes over do not qualify; and at the deadline
\* it returns nothing.
C23_FirstQualifyingCode ==
    [][/\ pc = "wc_poll" =>
            /\ \A i \in 1..Len(inbox) :
                  (inbox[i].id >= offset /\ inbox[i].id < offset'
                     /\ inbox[i].id # codeFrom') => ~Qualifies(inbox[i])
            /\ (pc' = "c2_got" /\ codeFrom' # 0) =>
                  \E i \in 1..Len(inbox) :
                     /\ inbox[i].id = codeFrom'
                     /\ inbox[i].id >= offset
                     /\ Qualifies(inbox[i])
                     /\ code' = DigitGroup(inbox[i].text)
            /\ (pc' = "c2_got" /\ codeFrom' = 0) =>
                  (code' = None /\ elapsed >= TWO_FACTOR_WAIT)
            /\ pc' = "c2_got" => (code' # None <=> codeFrom' # 0)
       /\ pc = "wc_start" =>
            \A t \in EDGE_TEXTS :
               /\ PatternMatch(Strip(t)) # None <=> \E n \in 6..8 : IsCodeCommand(t, n)
               /\ PatternMatch(Strip(t)) # None => PatternMatch(Strip(t)) = DigitGroup(t)]_vars

C23_Witness ==
    /\ pc = "c2_got"
    /\ codeFrom = 2
    /\ code = <<"1", "2", "3", "4", "5", "6">>
    /\ examined = <<1, 2>>
    /\ \E i \in 1..Len(inbox) :
          inbox[i].id = 1 /\ inbox[i].chat = CHAT_ID /\ inbox[i].text = T_code5

\* C24: every run calls notify exactly once, whatever its outcome, and the
\* flag it passes is success exactly when the exit status is 0; an exit
\* raised inside the try block is not followed by a second notification.
C24_NotifiedExactlyOnce ==
    /\ Len(notifs) <= 1
    /\ pc = "exited" => (Len(notifs) = 1 /\ (notifs[1] <=> exitCode = 0))

\* C25: in code-based 2FA the operator's code is filled into at most one
\* OTP field and submitted at most once, and once the OTP loop is left that
\* submission has been followed by exactly one verdict; also when the page
\* wait after the submission times out or raises.
C25_CodeSubmittedOnce ==
    /\ otpFills <= 1
    /\ otpSubmits <= 1
    /\ verdicts <= otpSubmits
    /\ pc # "c2_sel" => verdicts = otpSubmits

\* C26: login_github returns success only with the page URL off the
\* device-verification path; when the device step was entered, the 2FA
\* detection is reached only after the URL has left that path.
C26_LoginSuccessOffDevicePath ==
    [][/\ (pc = "lg_errcheck" /\ pc' = "oauth") => ~OnDevicePath(url')
       /\ (pc' = "tfa_detect" /\ Step("device_verification") \in hist')
             => ~OnDevicePath(url')]_vars

\* C27: when the update of the credential store succeeds, no text handed to
\* the Notifier contains the complete cookie value, the final notification
\* that replays the masked "new cookie" log line included, whatever the
\* length of the value.
C27_TokenNeverSentWhenUpdated ==
    secretUpdated =>
       \A i \in 1..Len(tgSent) : ~Contains(tgSent[i], newCookie)
====
